---- MODULE Spec2Model ----
(***************************************************************************)
(* Model of crates/router/src/db/reverse_lookup.rs (feature "kv_store"):   *)
(* the storage-scheme-aware adapter Store::insert_reverse_lookup and       *)
(* Store::get_lookup_by_lookup_id over a fast store (Redis), a durable     *)
(* store (Postgres) and a partitioned drain stream.                        *)
(*                                                                         *)
(* Every call is an asynchronous task.  A task suspends at each store      *)
(* round-trip, so each round-trip is one atomic step and steps of          *)
(* different tasks interleave freely.  The stores themselves, the drain    *)
(* stream, the drain consumer and db_utils are not part of the file; they  *)
(* are modelled from the interface the specification gives them.           *)
(***************************************************************************)
EXTENDS Naturals, Sequences, FiniteSets

(* ------------------------------ bounds -------------------------------- *)

\* number of calls (tasks) issued against the store
NumTasks == 3
\* number of store failures (transport, connection, deserialize, enqueue)
\* the environment may inject
MaxFaults == 1
\* number of entries the test double's collection may hold
MaxMockLen == 3

Tasks == 1..NumTasks

(* ---------------------------- record model ---------------------------- *)

LookupIds == {"lk_1", "lk_2"}
Variants == {1, 2}
Sources == {"payment"}

SkOf(i) == IF i = 1 THEN "sk_1" ELSE "sk_2"
PkOf(i) == IF i = 1 THEN "pk_1" ELSE "pk_2"
PkIds == {PkOf(i) : i \in Variants}

\* ReverseLookupNew: the construction requests the callers draw from
ReverseLookupNew ==
  {[lookup_id |-> l, sk_id |-> SkOf(i), pk_id |-> PkOf(i), source |-> s] :
     l \in LookupIds, i \in Variants, s \in Sources}

\* enums::MerchantStorageScheme
MerchantStorageScheme == {"PostgresOnly", "RedisKv"}

\* placeholder where a value of type ReverseLookup(New) is absent
NoRecord == [lookup_id |-> "", sk_id |-> "", pk_id |-> "", source |-> ""]

\* ReverseLookup::from(ReverseLookupNew): the identity copy of the four
\* fields done by the durable insert
FromNew(new) ==
  [lookup_id |-> new.lookup_id, sk_id |-> new.sk_id,
   pk_id |-> new.pk_id, source |-> new.source]

\* the fast-store value: the serialized form of the four fields
Serialize(rec) == <<rec.lookup_id, rec.sk_id, rec.pk_id, rec.source>>
Deserialize(val) ==
  [lookup_id |-> val[1], sk_id |-> val[2], pk_id |-> val[3], source |-> val[4]]
\* no value under the key
Absent == <<>>

(* ------------------------------ results ------------------------------- *)

\* CustomResult<ReverseLookup, errors::StorageError>
Ok(rec) == [kind |-> "Ok", rec |-> rec, key |-> ""]
Err(kind, key) == [kind |-> kind, rec |-> NoRecord, key |-> key]
Pending == [kind |-> "Pending", rec |-> NoRecord, key |-> ""]

NoCall == [op |-> "none", scheme |-> "PostgresOnly", new |-> NoRecord, id |-> ""]
NoIo == [setnx |-> "none", push |-> "none", rget |-> "none", db |-> "none"]

VARIABLES
  redis,     \* fast store: lookup_id -> serialized ReverseLookup or Absent
  pg,        \* durable store: lookup_id -> ReverseLookup or NoRecord
  stream,    \* drain stream: partition key -> sequence of instructions
  drainPos,  \* drain consumer: partition key -> instructions applied so far
  pc,        \* task -> its position in the call
  call,      \* task -> the call it runs (operation, scheme, arguments)
  result,    \* task -> what the call returned
  io,        \* task -> what each store round-trip of the call answered
  budget,    \* store failures the environment may still inject
  reverse_lookups,  \* MockDb: the collection behind its lock, in push order
  mock_call,        \* MockDb: the last call made on it
  mock_result       \* MockDb: what that call returned

vars == <<redis, pg, stream, drainPos, pc, call, result, io, budget,
          reverse_lookups, mock_call, mock_result>>
storeVars == <<redis, pg, stream, drainPos>>
mockVars == <<reverse_lookups, mock_call, mock_result>>

(* ------------------- the stores (external collaborators) -------------- *)

\* fast store set-if-absent: the reply to a delivered command
SetnxReply(store, key) == IF store[key] = Absent THEN "KeySet" ELSE "KeyNotSet"
\* fast store after serialize_and_set_key_if_not_exist(key, rec)
SetnxStore(store, key, rec) ==
  IF store[key] = Absent THEN [store EXCEPT ![key] = Serialize(rec)] ELSE store

\* fast store get_and_deserialize_key: the reply to a delivered command
RedisGetReply(store, key) == IF store[key] = Absent THEN "Miss" ELSE "Hit"

\* relational insert under the unique key lookup_id
PgInsertReply(db, new) ==
  IF db[new.lookup_id] = NoRecord THEN "Inserted" ELSE "UniqueViolation"
PgInsertStore(db, new) ==
  IF db[new.lookup_id] = NoRecord
  THEN [db EXCEPT ![new.lookup_id] = FromNew(new)] ELSE db

\* ReverseLookup::find_by_lookup_id
PgFindReply(db, id) == IF db[id] = NoRecord THEN "NotFound" ELSE "Found"

\* kv::TypedSql { op: kv::DBOperation::Insert { insertable } }
TypedSql(new) == [op |-> "Insert", insertable |-> new]

(* --------------- Store::insert_reverse_lookup (kv_store) -------------- *)

\* mutant: the scheme is ignored and every create takes the RedisKv arm
InsertRoute_AlwaysRedisKv(scheme) == "RedisKv"

\* the match on storage_scheme
InsertRoute(scheme) == IF scheme = "PostgresOnly" THEN "PostgresOnly" ELSE "RedisKv"

\* mutant: the source field is left at its default instead of copied
created_rev_lookup_NoSource(new) ==
  [lookup_id |-> new.lookup_id, sk_id |-> new.sk_id,
   pk_id |-> new.pk_id, source |-> ""]

\* the candidate record derived from the request, before any store access
created_rev_lookup(new) ==
  [lookup_id |-> new.lookup_id, sk_id |-> new.sk_id,
   pk_id |-> new.pk_id, source |-> new.source]

\* mutant: the partition is taken from lookup_id instead of pk_id (the two
\* lookup ids fall on the two partitions in order)
combination_ByLookupId(rec) == IF rec.lookup_id = "lk_1" THEN "pk_1" ELSE "pk_2"

\* let combination = &created_rev_lookup.pk_id, the value of
\* PartitionKey::MerchantIdPaymentIdCombination
combination(rec) == rec.pk_id

\* errors::StorageError from a failed get_redis_conn()
RedisConnError == Err("RedisError", "")

\* errors::StorageError from a failed durable call (map_err(Into::into));
\* TransportErr stands for a failed connection acquisition or a failed query
DatabaseError(reply, key) ==
  CASE reply = "UniqueViolation" -> Err("DuplicateValue", key)
    [] reply = "NotFound" -> Err("ValueNotFound", key)
    [] OTHER -> Err("DatabaseError", "")

\* PostgresOnly arm: pg_connection_write(self).await? then new.insert(&conn)
PgInsertResult(reply, new) ==
  IF reply = "Inserted" THEN Ok(FromNew(new)) ELSE DatabaseError(reply, new.lookup_id)

\* mutant: the KeyNotSet reply is handled like KeySet
SetnxArm_KeyNotSetAsSet(reply, rec) ==
  CASE reply \in {"KeySet", "KeyNotSet"} -> [next |-> "push", result |-> Pending]
    [] reply = "ConnErr" -> [next |-> "done", result |-> Err("RedisError", "")]
    [] OTHER -> [next |-> "done", result |-> Err("KVError", "")]

\* mutant: the DuplicateValue error carries key: None
SetnxArm_NoKey(reply, rec) ==
  CASE reply = "KeySet" -> [next |-> "push", result |-> Pending]
    [] reply = "KeyNotSet" -> [next |-> "done", result |-> Err("DuplicateValue", "")]
    [] reply = "ConnErr" -> [next |-> "done", result |-> Err("RedisError", "")]
    [] OTHER -> [next |-> "done", result |-> Err("KVError", "")]

\* mutant: the Err arm reports a duplicate instead of KVError
SetnxArm_ErrAsDuplicate(reply, rec) ==
  CASE reply = "KeySet" -> [next |-> "push", result |-> Pending]
    [] reply = "ConnErr" -> [next |-> "done", result |-> Err("RedisError", "")]
    [] OTHER -> [next |-> "done", result |-> Err("DuplicateValue", rec.lookup_id)]

\* RedisKv arm: the match on the reply of serialize_and_set_key_if_not_exist;
\* next is where the task goes, result what it returns when it is done
SetnxArm(reply, rec) ==
  CASE reply = "KeySet" -> [next |-> "push", result |-> Pending]
    [] reply = "KeyNotSet" ->
         [next |-> "done", result |-> Err("DuplicateValue", rec.lookup_id)]
    [] reply = "ConnErr" -> [next |-> "done", result |-> RedisConnError]
    [] OTHER -> [next |-> "done", result |-> Err("KVError", "")]

\* mutant: the enqueue error is dropped (no `?` on the push)
PushArm_IgnoreError(ack, rec) == Ok(rec)

\* KeySet arm: push_to_drainer_stream(..).await.change_context(KVError)?
\* then Ok(created_rev_lookup)
PushArm(ack, rec) == IF ack = "Ack" THEN Ok(rec) ELSE Err("KVError", "")

(* -------------- Store::get_lookup_by_lookup_id (kv_store) ------------- *)

\* mutant: the scheme is ignored and every read takes the durable arm
GetRoute_AlwaysPostgresOnly(scheme) == "PostgresOnly"

\* mutant: the scheme is ignored and every read takes the RedisKv arm
GetRoute_AlwaysRedisKv(scheme) == "RedisKv"

\* the match on storage_scheme
GetRoute(scheme) == IF scheme = "PostgresOnly" THEN "PostgresOnly" ELSE "RedisKv"

\* mutant: a missing row is turned into a default record instead of an error
database_call_DefaultOnMiss(db, id, reply) ==
  IF reply \in {"Found", "NotFound"} THEN Ok(db[id]) ELSE Err("DatabaseError", "")

\* the closure database_call: pg_connection_read(self).await? then
\* ReverseLookup::find_by_lookup_id(id, &conn)
database_call(db, id, reply) ==
  IF reply = "Found" THEN Ok(db[id]) ELSE DatabaseError(reply, id)

\* db_utils::try_redis_get_else_try_database_get: the fast-store answer is
\* returned when it succeeded, any failure falls back to the durable read
try_redis_get_else_try_database_get(reply, val) ==
  IF reply = "Hit"
  THEN [next |-> "done", result |-> Ok(Deserialize(val))]
  ELSE [next |-> "db_get", result |-> Pending]

\* mutant: the fast-store read is awaited directly and its error returned,
\* database_call is never handed to the fallback helper
RedisGetArm_NoFallback(reply, val) ==
  IF reply = "Hit"
  THEN [next |-> "done", result |-> Ok(Deserialize(val))]
  ELSE [next |-> "done", result |-> Err("RedisError", "")]

\* mutant: a failed get_redis_conn() is handled like a failed read (no `?`)
RedisGetArm_ConnErrFallsBack(reply, val) ==
  IF reply = "Hit"
  THEN [next |-> "done", result |-> Ok(Deserialize(val))]
  ELSE [next |-> "db_get", result |-> Pending]

\* RedisKv arm up to the first suspension: get_redis_conn()? then the helper
RedisGetArm(reply, val) ==
  IF reply = "ConnErr"
  THEN [next |-> "done", result |-> RedisConnError]
  ELSE try_redis_get_else_try_database_get(reply, val)

(* ------------------------- failure injection -------------------------- *)

\* the answers a round-trip can give: the store's own reply, or, while the
\* failure budget lasts, one of the failures
Answers(reply, failures) ==
  {reply} \cup (IF budget > 0 THEN failures ELSE {})

IsFailure(reply) ==
  reply \in {"ConnErr", "Err", "TransportErr", "DeserializeErr"}

Charge(reply) == IF IsFailure(reply) THEN budget - 1 ELSE budget

\* tasks are interchangeable: they start their calls in index order
MayStart(p) == pc[p] = "idle" /\ \A q \in Tasks : q < p => pc[q] # "idle"

\* lookup ids and request variants are interchangeable too: the first call
\* issued names the first of each, every later call draws from all of them
FirstCall == pc[1] = "idle"

CallLookupIds == IF FirstCall THEN {"lk_1"} ELSE LookupIds

CallRequests ==
  IF FirstCall
  THEN {new \in ReverseLookupNew :
          new.lookup_id = "lk_1" /\ new.pk_id = PkOf(1)}
  ELSE ReverseLookupNew

(* ------------------------------ actions ------------------------------- *)

Init ==
  /\ redis = [l \in LookupIds |-> Absent]
  /\ pg = [l \in LookupIds |-> NoRecord]
  /\ stream = [k \in PkIds |-> <<>>]
  /\ drainPos = [k \in PkIds |-> 0]
  /\ pc = [p \in Tasks |-> "idle"]
  /\ call = [p \in Tasks |-> NoCall]
  /\ result = [p \in Tasks |-> Pending]
  /\ io = [p \in Tasks |-> NoIo]
  /\ budget = MaxFaults
  /\ reverse_lookups = <<>>
  /\ mock_call = NoCall
  /\ mock_result = Pending

\* PostgresOnly arm of insert_reverse_lookup: one durable round-trip
InsertPostgresOnly(p, new) ==
  \E reply \in Answers(PgInsertReply(pg, new), {"TransportErr"}) :
    /\ pg' = IF reply = "Inserted" THEN PgInsertStore(pg, new) ELSE pg
    /\ pc' = [pc EXCEPT ![p] = "done"]
    /\ result' = [result EXCEPT ![p] = PgInsertResult(reply, new)]
    /\ io' = [io EXCEPT ![p].db = reply]
    /\ budget' = Charge(reply)
    /\ UNCHANGED <<redis, stream, drainPos>>

\* RedisKv arm of insert_reverse_lookup up to its first suspension: the
\* conditional set in the fast store
InsertSetnx(p, new) ==
  LET rec == created_rev_lookup(new) IN
  \E reply \in Answers(SetnxReply(redis, rec.lookup_id), {"ConnErr", "Err"}) :
    LET arm == SetnxArm(reply, rec) IN
    /\ redis' = IF IsFailure(reply) THEN redis
                ELSE SetnxStore(redis, rec.lookup_id, rec)
    /\ pc' = [pc EXCEPT ![p] = arm.next]
    /\ result' = [result EXCEPT ![p] = arm.result]
    /\ io' = [io EXCEPT ![p].setnx = reply]
    /\ budget' = Charge(reply)
    /\ UNCHANGED <<pg, stream, drainPos>>

\* a caller issues insert_reverse_lookup(new, storage_scheme)
insert_reverse_lookup(p) ==
  /\ MayStart(p)
  /\ \E new \in CallRequests, scheme \in MerchantStorageScheme :
       /\ call' = [call EXCEPT ![p] = [op |-> "insert", scheme |-> scheme,
                                       new |-> new, id |-> new.lookup_id]]
       /\ IF InsertRoute(scheme) = "PostgresOnly"
          THEN InsertPostgresOnly(p, new)
          ELSE InsertSetnx(p, new)
  /\ UNCHANGED mockVars

\* KeySet arm: the task resumes and enqueues the replication instruction
insert_push(p) ==
  /\ pc[p] = "push"
  /\ LET new == call[p].new
         rec == created_rev_lookup(new)
         k == combination(rec)
     IN \E ack \in Answers("Ack", {"Err"}) :
          /\ stream' = IF ack = "Ack"
                       THEN [stream EXCEPT ![k] = Append(@, TypedSql(new))]
                       ELSE stream
          /\ pc' = [pc EXCEPT ![p] = "done"]
          /\ result' = [result EXCEPT ![p] = PushArm(ack, rec)]
          /\ io' = [io EXCEPT ![p].push = ack]
          /\ budget' = Charge(ack)
  /\ UNCHANGED <<redis, pg, drainPos, call, mockVars>>

\* the durable read of get_lookup_by_lookup_id: database_call().await
GetDatabase(p, id) ==
  \E reply \in Answers(PgFindReply(pg, id), {"TransportErr"}) :
    /\ pc' = [pc EXCEPT ![p] = "done"]
    /\ result' = [result EXCEPT ![p] = database_call(pg, id, reply)]
    /\ io' = [io EXCEPT ![p].db = reply]
    /\ budget' = Charge(reply)

\* RedisKv arm of get_lookup_by_lookup_id up to its first suspension: the
\* fast-store read
GetRedis(p, id) ==
  \E reply \in Answers(RedisGetReply(redis, id),
                       {"ConnErr", "TransportErr", "DeserializeErr"}) :
    LET arm == RedisGetArm(reply, redis[id]) IN
    /\ pc' = [pc EXCEPT ![p] = arm.next]
    /\ result' = [result EXCEPT ![p] = arm.result]
    /\ io' = [io EXCEPT ![p].rget = reply]
    /\ budget' = Charge(reply)

\* a caller issues get_lookup_by_lookup_id(id, storage_scheme)
get_lookup_by_lookup_id(p) ==
  /\ MayStart(p)
  /\ \E id \in CallLookupIds, scheme \in MerchantStorageScheme :
       /\ call' = [call EXCEPT ![p] = [op |-> "get", scheme |-> scheme,
                                       new |-> NoRecord, id |-> id]]
       /\ IF GetRoute(scheme) = "PostgresOnly"
          THEN GetDatabase(p, id)
          ELSE GetRedis(p, id)
  /\ UNCHANGED <<storeVars, mockVars>>

\* mutant: a fallback hit is written back to the fast store
get_fallback_BackFill(p) ==
  /\ pc[p] = "db_get"
  /\ GetDatabase(p, call[p].id)
  /\ redis' = IF pg[call[p].id] # NoRecord /\ result'[p].kind = "Ok"
              THEN [redis EXCEPT ![call[p].id] = Serialize(pg[call[p].id])]
              ELSE redis
  /\ UNCHANGED <<pg, stream, drainPos, call, mockVars>>

\* the fast-store read failed: the task resumes with the durable read
get_fallback(p) ==
  /\ pc[p] = "db_get"
  /\ GetDatabase(p, call[p].id)
  /\ UNCHANGED <<storeVars, call, mockVars>>

\* the drain consumer applies the next queued instruction of a partition
\* to the durable store, idempotently
Drain(k) ==
  /\ drainPos[k] < Len(stream[k])
  /\ pg' = PgInsertStore(pg, stream[k][drainPos[k] + 1].insertable)
  /\ drainPos' = [drainPos EXCEPT ![k] = @ + 1]
  /\ UNCHANGED <<redis, stream, pc, call, result, io, budget, mockVars>>

Next ==
  \/ \E p \in Tasks : insert_reverse_lookup(p)
  \/ \E p \in Tasks : insert_push(p)
  \/ \E p \in Tasks : get_lookup_by_lookup_id(p)
  \/ \E p \in Tasks : get_fallback(p)
  \/ \E k \in PkIds : Drain(k)

Spec == Init /\ [][Next]_vars

\* the same program with room for one more store failure, so that two
\* different failures can meet in one behaviour
InitTwoFailures ==
  /\ redis = [l \in LookupIds |-> Absent]
  /\ pg = [l \in LookupIds |-> NoRecord]
  /\ stream = [k \in PkIds |-> <<>>]
  /\ drainPos = [k \in PkIds |-> 0]
  /\ pc = [p \in Tasks |-> "idle"]
  /\ call = [p \in Tasks |-> NoCall]
  /\ result = [p \in Tasks |-> Pending]
  /\ io = [p \in Tasks |-> NoIo]
  /\ budget = MaxFaults + 1
  /\ reverse_lookups = <<>>
  /\ mock_call = NoCall
  /\ mock_result = Pending

SpecTwoFailures == InitTwoFailures /\ [][Next]_vars

\* the same program with one more call issued, so that two creates and two
\* reads can meet in one behaviour
MoreTasks == 1..(NumTasks + 1)

InitOneMoreCall ==
  /\ redis = [l \in LookupIds |-> Absent]
  /\ pg = [l \in LookupIds |-> NoRecord]
  /\ stream = [k \in PkIds |-> <<>>]
  /\ drainPos = [k \in PkIds |-> 0]
  /\ pc = [p \in MoreTasks |-> "idle"]
  /\ call = [p \in MoreTasks |-> NoCall]
  /\ result = [p \in MoreTasks |-> Pending]
  /\ io = [p \in MoreTasks |-> NoIo]
  /\ budget = MaxFaults
  /\ reverse_lookups = <<>>
  /\ mock_call = NoCall
  /\ mock_result = Pending

NextOneMoreCall ==
  \/ \E p \in MoreTasks : insert_reverse_lookup(p)
  \/ \E p \in MoreTasks : insert_push(p)
  \/ \E p \in MoreTasks : get_lookup_by_lookup_id(p)
  \/ \E p \in MoreTasks : get_fallback(p)
  \/ \E k \in PkIds : Drain(k)

SpecOneMoreCall == InitOneMoreCall /\ [][NextOneMoreCall]_vars

\* the program with a fair drain consumer: a queued instruction is
\* eventually applied
FairSpec == Spec /\ \A k \in PkIds : WF_vars(Drain(k))

(* ------------------ MockDb: the in-memory test double ----------------- *)

\* reverse_lookups.iter().find(|r| r.lookup_id == lookup_id): the index of
\* the first entry with the lookup_id, 0 when there is none
MockFind(coll, lookup_id) ==
  IF \E i \in 1..Len(coll) : coll[i].lookup_id = lookup_id
  THEN CHOOSE i \in 1..Len(coll) :
         /\ coll[i].lookup_id = lookup_id
         /\ \A j \in 1..(i - 1) : coll[j].lookup_id # lookup_id
  ELSE 0

\* MockDb::insert_reverse_lookup: the record derived from the request is
\* pushed under the lock and returned; the scheme is ignored
MockDb_insert_reverse_lookup ==
  /\ Len(reverse_lookups) < MaxMockLen
  /\ \E new \in ReverseLookupNew, scheme \in MerchantStorageScheme :
       LET reverse_lookup_insert == FromNew(new) IN
       /\ reverse_lookups' = Append(reverse_lookups, reverse_lookup_insert)
       /\ mock_call' = [op |-> "insert", scheme |-> scheme,
                        new |-> new, id |-> new.lookup_id]
       /\ mock_result' = Ok(reverse_lookup_insert)
  /\ UNCHANGED <<storeVars, pc, call, result, io, budget>>

\* MockDb::get_lookup_by_lookup_id: linear scan under the lock, the first
\* match cloned or ValueNotFound; the scheme is ignored
MockDb_get_lookup_by_lookup_id ==
  /\ \E id \in LookupIds, scheme \in MerchantStorageScheme :
       LET i == MockFind(reverse_lookups, id) IN
       /\ mock_call' = [op |-> "get", scheme |-> scheme,
                        new |-> NoRecord, id |-> id]
       /\ mock_result' = IF i = 0 THEN Err("ValueNotFound", id)
                         ELSE Ok(reverse_lookups[i])
  /\ UNCHANGED <<storeVars, pc, call, result, io, budget, reverse_lookups>>

MockNext ==
  \/ MockDb_insert_reverse_lookup
  \/ MockDb_get_lookup_by_lookup_id

MockSpec == Init /\ [][MockNext]_vars

(* ============================== claims ================================ *)

Done(p) == pc[p] = "done"

IsInsert(p, scheme, l) ==
  call[p].op = "insert" /\ call[p].scheme = scheme /\ call[p].id = l

IsGet(p, scheme, l) ==
  call[p].op = "get" /\ call[p].scheme = scheme /\ call[p].id = l

\* no round-trip of the task's call failed
NoFailure(p) ==
  /\ ~IsFailure(io[p].setnx) /\ ~IsFailure(io[p].push)
  /\ ~IsFailure(io[p].rget) /\ ~IsFailure(io[p].db)

\* number of occurrences of x in seq
Count(seq, x) == Cardinality({i \in 1..Len(seq) : seq[i] = x})

\* the tasks whose call is a RedisKv create of lookup_id l
KvCreators(l) == {p \in Tasks : IsInsert(p, "RedisKv", l)}

\* the tasks whose create of lookup_id l returned success, whatever the scheme
Succeeded(l) ==
  {p \in Tasks : call[p].op = "insert" /\ call[p].id = l /\ result[p].kind = "Ok"}

(* C1: at-most-once creation.  The fast store starts without the key, so   *)
(* the RedisKv creates of a lookup_id are all the calls that race on it:   *)
(* never two of them succeed, and once two or more have all returned       *)
(* without a store failure, exactly one has returned success and every     *)
(* other one DuplicateValue naming the lookup_id.                          *)
C1_AtMostOnceCreation ==
  \A l \in LookupIds :
    LET K == KvCreators(l)
        S == {p \in K : result[p].kind = "Ok"}
    IN /\ Cardinality(S) <= 1
       /\ (Cardinality(K) >= 2 /\ \A p \in K : Done(p) /\ NoFailure(p))
            => /\ Cardinality(S) = 1
               /\ \A p \in K \ S : result[p] = Err("DuplicateValue", l)

\* every task ran a RedisKv create of the same lookup_id and all returned
C1_Witness ==
  \E l \in LookupIds :
    /\ KvCreators(l) = Tasks
    /\ \A p \in Tasks : Done(p) /\ NoFailure(p)
    /\ \E p \in Tasks : result[p].kind = "Ok"
    /\ \E p \in Tasks : result[p].kind = "DuplicateValue"

(* C2: lookup_id is unique over the whole record space: whatever the mix   *)
(* of schemes, at most one create per lookup_id has returned success.      *)
C2_LookupIdUnique == \A l \in LookupIds : Cardinality(Succeeded(l)) <= 1

(* C3: a RedisKv create whose conditional set is answered while the key is *)
(* already in the fast store returns DuplicateValue naming the lookup_id,  *)
(* enqueues nothing and leaves the fast store as it was.                   *)
C3_DuplicateRejected ==
  [][\A p \in Tasks :
       ( /\ pc[p] = "idle"
         /\ call'[p].op = "insert" /\ call'[p].scheme = "RedisKv"
         /\ redis[call'[p].id] # Absent
         /\ ~IsFailure(io'[p].setnx) )
       => /\ pc'[p] = "done"
          /\ result'[p] = Err("DuplicateValue", call'[p].id)
          /\ stream' = stream
          /\ redis' = redis]_vars

\* a duplicate was rejected while the key held another request's record
C3_Witness ==
  \E p \in Tasks :
    /\ Done(p) /\ call[p].op = "insert" /\ call[p].scheme = "RedisKv"
    /\ io[p].setnx = "KeyNotSet"
    /\ result[p] = Err("DuplicateValue", call[p].id)
    /\ redis[call[p].id] # Absent
    /\ redis[call[p].id] # Serialize(FromNew(call[p].new))

(* C4: a RedisKv create that returned success returned the four fields of  *)
(* its request, the fast store holds that record under the lookup_id, and  *)
(* the drain stream holds exactly one insert instruction carrying the      *)
(* request, on the partition of the request's pk_id and on no other.       *)
C4_SuccessfulFastCreate ==
  \A p \in Tasks :
    (Done(p) /\ call[p].op = "insert" /\ call[p].scheme = "RedisKv"
       /\ result[p].kind = "Ok")
    => LET new == call[p].new
           rec == result[p].rec
       IN /\ rec.lookup_id = new.lookup_id /\ rec.sk_id = new.sk_id
          /\ rec.pk_id = new.pk_id /\ rec.source = new.source
          /\ redis[new.lookup_id] # Absent
          /\ Deserialize(redis[new.lookup_id]) = rec
          /\ \A k \in PkIds :
               Count(stream[k], TypedSql(new)) = (IF k = new.pk_id THEN 1 ELSE 0)

\* a RedisKv create returned success and its instruction is queued
C4_Witness ==
  \E p \in Tasks :
    /\ Done(p) /\ call[p].op = "insert" /\ call[p].scheme = "RedisKv"
    /\ result[p].kind = "Ok" /\ io[p].setnx = "KeySet" /\ io[p].push = "Ack"
    /\ Len(stream[call[p].new.pk_id]) >= 1

(* C5: a RedisKv create that newly set the key and whose enqueue failed    *)
(* returns KVError, and the entry it wrote stays in the fast store.        *)
C5_EnqueueFailureIsFatal ==
  \A p \in Tasks :
    (Done(p) /\ call[p].op = "insert" /\ call[p].scheme = "RedisKv"
       /\ io[p].setnx = "KeySet" /\ io[p].push = "Err")
    => /\ result[p] = Err("KVError", "")
       /\ redis[call[p].id] = Serialize(FromNew(call[p].new))

\* an enqueue failed after the key was set
C5_Witness ==
  \E p \in Tasks :
    /\ Done(p) /\ call[p].op = "insert" /\ call[p].scheme = "RedisKv"
    /\ io[p].setnx = "KeySet" /\ io[p].push = "Err"
    /\ result[p].kind = "KVError"
    /\ stream = [k \in PkIds |-> <<>>]

(* C6: no partially-written state is observable: a read returns a record   *)
(* only if a create of that lookup_id has returned success; a create that  *)
(* returned an error leaves nothing readable.  (A create that has not yet  *)
(* returned is not held against the read.)                                 *)
C6_NoPartialStateObservable ==
  \A p \in Tasks :
    (Done(p) /\ call[p].op = "get" /\ result[p].kind = "Ok")
    => \E q \in Tasks :
         /\ call[q].op = "insert" /\ call[q].id = call[p].id
         /\ (result[q].kind = "Ok" \/ ~Done(q))

(* C7: on a RedisKv create, the error returned when the enqueue fails, the *)
(* error returned when the fast store has a transport failure and          *)
(* DuplicateValue are three different kinds.                               *)
C7_ErrorKindsDistinct ==
  \A p, q \in Tasks :
    ( /\ Done(p) /\ call[p].op = "insert" /\ call[p].scheme = "RedisKv"
      /\ Done(q) /\ call[q].op = "insert" /\ call[q].scheme = "RedisKv"
      /\ io[p].push = "Err" /\ io[q].setnx = "Err" )
    => /\ result[p].kind # result[q].kind
       /\ result[p].kind # "DuplicateValue"
       /\ result[q].kind # "DuplicateValue"

\* what the durable read path answers for id in durable store db, given
\* whether the durable round-trip was delivered
DurableAnswer(db, id, reply) ==
  IF IsFailure(reply) THEN Err("DatabaseError", "")
  ELSE IF db[id] # NoRecord THEN Ok(db[id])
  ELSE Err("ValueNotFound", id)

(* C8: read fallback.  Under RedisKv a failed fast-store read (miss,       *)
(* deserialize error, transport error) does not end the call: the call     *)
(* goes on to the durable read and returns what the durable read path      *)
(* returns for the id in that state, the record when the durable store     *)
(* has it.                                                                 *)
C8_ReadFallback ==
  [][\A p \in Tasks :
       /\ ( /\ pc[p] = "idle"
            /\ call'[p].op = "get" /\ call'[p].scheme = "RedisKv"
            /\ io'[p].rget \in {"Miss", "DeserializeErr", "TransportErr"} )
          => pc'[p] = "db_get"
       /\ (pc[p] = "db_get" /\ pc'[p] = "done")
          => result'[p] = DurableAnswer(pg, call[p].id, io'[p].db)]_vars

\* a record present only in the durable store was returned under RedisKv
C8_Witness ==
  \E p \in Tasks :
    /\ Done(p) /\ call[p].op = "get" /\ call[p].scheme = "RedisKv"
    /\ io[p].rget = "Miss" /\ io[p].db = "Found"
    /\ redis[call[p].id] = Absent
    /\ result[p] = Ok(pg[call[p].id])
    /\ result[p].rec.lookup_id = call[p].id

(* C9: not-found is terminal.  A read of an id no create was ever issued   *)
(* for, whose round-trips were all answered, fails with ValueNotFound      *)
(* under PostgresOnly and under RedisKv.                                   *)
C9_NotFoundIsTerminal ==
  \A p \in Tasks :
    ( /\ Done(p) /\ call[p].op = "get" /\ NoFailure(p)
      /\ \A q \in Tasks : ~(call[q].op = "insert" /\ call[q].id = call[p].id) )
    => result[p] = Err("ValueNotFound", call[p].id)

\* both layers missed under RedisKv while another id had been created
C9_Witness ==
  \E p, q \in Tasks :
    /\ Done(p) /\ call[p].op = "get" /\ call[p].scheme = "RedisKv"
    /\ io[p].rget = "Miss" /\ io[p].db = "NotFound"
    /\ result[p].kind = "ValueNotFound"
    /\ Done(q) /\ call[q].op = "insert" /\ result[q].kind = "Ok"
    /\ \A r \in Tasks : ~(call[r].op = "insert" /\ call[r].id = call[p].id)

(* C10: read-after-write in the durable-only scheme.  Once a PostgresOnly  *)
(* create of r has returned success, a PostgresOnly read of r.lookup_id    *)
(* that is answered returns a record with the four fields of r, whatever   *)
(* other creates ran in between.                                           *)
C10_ReadAfterWriteDurable ==
  [][\A q \in Tasks :
       ( /\ pc[q] = "idle"
         /\ call'[q].op = "get" /\ call'[q].scheme = "PostgresOnly"
         /\ ~IsFailure(io'[q].db) )
       => \A p \in Tasks :
            (Done(p) /\ IsInsert(p, "PostgresOnly", call'[q].id)
               /\ result[p].kind = "Ok")
            => /\ result'[q].kind = "Ok"
               /\ result'[q].rec.lookup_id = call[p].new.lookup_id
               /\ result'[q].rec.sk_id = call[p].new.sk_id
               /\ result'[q].rec.pk_id = call[p].new.pk_id
               /\ result'[q].rec.source = call[p].new.source]_vars

\* a durable create, a create of another lookup_id, and a durable read of
\* the first that returned its record
C10_Witness ==
  \E p, o, q \in Tasks :
    /\ Done(p) /\ call[p].op = "insert" /\ call[p].scheme = "PostgresOnly"
    /\ result[p].kind = "Ok"
    /\ Done(o) /\ call[o].op = "insert" /\ call[o].id # call[p].id
    /\ result[o].kind = "Ok"
    /\ Done(q) /\ IsGet(q, "PostgresOnly", call[p].id)
    /\ result[q] = Ok(FromNew(call[p].new))

(* C11: read-after-write in the fast-path scheme.  Once a RedisKv create   *)
(* of r has returned success, a RedisKv read of r.lookup_id whose          *)
(* fast-store read is answered returns r at once, from the fast store:     *)
(* no durable read is made, whether or not the drain consumer has applied  *)
(* anything.                                                               *)
C11_ReadAfterWriteFast ==
  [][\A q \in Tasks :
       ( /\ pc[q] = "idle"
         /\ call'[q].op = "get" /\ call'[q].scheme = "RedisKv"
         /\ ~IsFailure(io'[q].rget) )
       => \A p \in Tasks :
            (Done(p) /\ IsInsert(p, "RedisKv", call'[q].id)
               /\ result[p].kind = "Ok")
            => /\ pc'[q] = "done"
               /\ result'[q] = Ok(result[p].rec)
               /\ result'[q].rec.sk_id = call[p].new.sk_id
               /\ result'[q].rec.pk_id = call[p].new.pk_id
               /\ result'[q].rec.source = call[p].new.source
               /\ io'[q].db = "none"]_vars

\* a RedisKv read returned the record of a successful RedisKv create while
\* nothing had been drained and the durable store did not have it
C11_Witness ==
  \E p, q \in Tasks :
    /\ Done(p) /\ call[p].op = "insert" /\ call[p].scheme = "RedisKv"
    /\ result[p].kind = "Ok"
    /\ Done(q) /\ IsGet(q, "RedisKv", call[p].id)
    /\ io[q].rget = "Hit" /\ io[q].db = "none"
    /\ result[q] = Ok(FromNew(call[p].new))
    /\ pg[call[p].id] = NoRecord
    /\ \A k \in PkIds : drainPos[k] = 0

(* C12: partition ordering.  An acknowledged enqueue appends the           *)
(* instruction of its request at the end of the stream of the request's    *)
(* pk_id and changes no other partition, and no step reorders or removes   *)
(* what a stream holds: instructions of one pk_id stay in enqueue order.   *)
C12_PartitionOrdering ==
  [][/\ \A k \in PkIds :
          /\ Len(stream[k]) <= Len(stream'[k])
          /\ SubSeq(stream'[k], 1, Len(stream[k])) = stream[k]
     /\ \A p \in Tasks :
          (pc[p] = "push" /\ pc'[p] = "done" /\ io'[p].push = "Ack")
          => /\ stream'[call[p].new.pk_id] =
                  Append(stream[call[p].new.pk_id], TypedSql(call[p].new))
             /\ \A k \in PkIds \ {call[p].new.pk_id} : stream'[k] = stream[k]]_vars

\* two successful RedisKv creates of different lookup ids share a pk_id and
\* their instructions are the two entries of that partition
C12_Witness ==
  \E p, q \in Tasks :
    /\ p # q
    /\ Done(p) /\ call[p].op = "insert" /\ call[p].scheme = "RedisKv"
    /\ Done(q) /\ call[q].op = "insert" /\ call[q].scheme = "RedisKv"
    /\ result[p].kind = "Ok" /\ result[q].kind = "Ok"
    /\ call[p].new.pk_id = call[q].new.pk_id
    /\ call[p].id # call[q].id
    /\ stream[call[p].new.pk_id] = <<TypedSql(call[p].new), TypedSql(call[q].new)>>

(* C16: fast-store transport failure on create.  A RedisKv create whose    *)
(* conditional set fails in transport returns KVError, never               *)
(* DuplicateValue, enqueues nothing and leaves the fast store, the durable *)
(* store and the drain stream as they were.                                *)
C16_SetnxTransportFailure ==
  [][\A p \in Tasks :
       ( /\ pc[p] = "idle"
         /\ call'[p].op = "insert" /\ call'[p].scheme = "RedisKv"
         /\ io'[p].setnx = "Err" )
       => /\ pc'[p] = "done"
          /\ result'[p] = Err("KVError", "")
          /\ io'[p].push = "none"
          /\ redis' = redis /\ pg' = pg /\ stream' = stream]_vars

\* the conditional set failed in transport for a key the fast store holds
C16_Witness ==
  \E p \in Tasks :
    /\ Done(p) /\ call[p].op = "insert" /\ call[p].scheme = "RedisKv"
    /\ io[p].setnx = "Err" /\ io[p].push = "none"
    /\ result[p].kind = "KVError"
    /\ redis[call[p].id] # Absent

(* C17: get_lookup_by_lookup_id is read-only.  No step of a read, under    *)
(* either scheme and whatever it returns, changes the fast store, the      *)
(* durable store or the drain stream; a fallback hit is not written back   *)
(* to the fast store.                                                      *)
C17_GetIsReadOnly ==
  [][\A p \in Tasks :
       (call'[p].op = "get" /\ pc'[p] # pc[p])
       => redis' = redis /\ pg' = pg /\ stream' = stream]_vars

\* a fallback hit on a record created under PostgresOnly: the fast store
\* still misses the key and nothing was ever queued
C17_Witness ==
  \E p \in Tasks :
    /\ Done(p) /\ call[p].op = "get" /\ call[p].scheme = "RedisKv"
    /\ io[p].rget \in {"Miss", "DeserializeErr", "TransportErr"}
    /\ io[p].db = "Found" /\ result[p].kind = "Ok"
    /\ redis[call[p].id] = Absent
    /\ \A k \in PkIds : stream[k] = <<>>

(* C18: scheme isolation.  A PostgresOnly create or read makes no          *)
(* fast-store round-trip, leaves the fast store alone and enqueues         *)
(* nothing; a RedisKv create never writes the durable store (only the      *)
(* drain consumer does, on that path).                                     *)
C18_SchemeIsolation ==
  [][\A p \in Tasks :
       /\ (pc'[p] # pc[p] /\ call'[p].scheme = "PostgresOnly")
          => /\ redis' = redis /\ stream' = stream
             /\ io'[p].setnx = "none" /\ io'[p].push = "none"
             /\ io'[p].rget = "none"
       /\ (pc'[p] # pc[p] /\ call'[p].op = "insert"
             /\ call'[p].scheme = "RedisKv")
          => pg' = pg /\ io'[p].db = "none"]_vars

\* a PostgresOnly create and a RedisKv create both returned success, the
\* first unknown to the fast store, the second unknown to the durable store
C18_Witness ==
  \E p, q \in Tasks :
    /\ Done(p) /\ call[p].op = "insert" /\ call[p].scheme = "PostgresOnly"
    /\ result[p].kind = "Ok" /\ redis[call[p].id] = Absent
    /\ Done(q) /\ call[q].op = "insert" /\ call[q].scheme = "RedisKv"
    /\ result[q].kind = "Ok" /\ pg[call[q].id] = NoRecord
    /\ Len(stream[call[q].new.pk_id]) = 1

(* C19: fast-store handle unavailable on read.  A RedisKv read whose       *)
(* get_redis_conn() fails returns that error at once and makes no durable  *)
(* read, also when the durable store holds the record.                     *)
C19_RedisConnUnavailableOnRead ==
  \A p \in Tasks :
    (call[p].op = "get" /\ call[p].scheme = "RedisKv" /\ io[p].rget = "ConnErr")
    => /\ Done(p)
       /\ result[p] = RedisConnError
       /\ io[p].db = "none"

\* the handle was unavailable while the durable store held the record
C19_Witness ==
  \E p \in Tasks :
    /\ Done(p) /\ call[p].op = "get" /\ call[p].scheme = "RedisKv"
    /\ io[p].rget = "ConnErr" /\ io[p].db = "none"
    /\ result[p].kind # "Ok"
    /\ pg[call[p].id] # NoRecord

\* number of entries of the MockDb collection with lookup_id l
MockEntries(l) ==
  Cardinality({i \in 1..Len(reverse_lookups) : reverse_lookups[i].lookup_id = l})

(* C13: test double duplicate rejection.  MockDb.insert_reverse_lookup     *)
(* appends only when no entry has the lookup_id, so the collection holds   *)
(* at most one entry per lookup_id, and a create that returned success     *)
(* added the only entry of its lookup_id.                                  *)
C13_MockRejectsDuplicates ==
  /\ \A l \in LookupIds : MockEntries(l) <= 1
  /\ (mock_call.op = "insert" /\ mock_result.kind = "Ok")
       => MockEntries(mock_call.id) = 1

(* C14: record immutability.  Whatever the mix of schemes, all successful  *)
(* reads of one lookup_id return the same sk_id, pk_id and source.         *)
C14_RecordImmutable ==
  \A p, q \in DOMAIN pc :
    ( /\ Done(p) /\ call[p].op = "get" /\ result[p].kind = "Ok"
      /\ Done(q) /\ call[q].op = "get" /\ result[q].kind = "Ok"
      /\ call[p].id = call[q].id )
    => /\ result[p].rec.sk_id = result[q].rec.sk_id
       /\ result[p].rec.pk_id = result[q].rec.pk_id
       /\ result[p].rec.source = result[q].rec.source

(* C15: eventual durability.  With a fair drain consumer, the record of    *)
(* every RedisKv create that returned success is eventually in the         *)
(* durable store, where a PostgresOnly read finds it.                      *)
C15_EventualDurability ==
  \A p \in Tasks, new \in ReverseLookupNew :
    (Done(p) /\ call[p].op = "insert" /\ call[p].scheme = "RedisKv"
       /\ call[p].new = new /\ result[p].kind = "Ok")
    ~> (pg[new.lookup_id] = FromNew(new))

====
